---- MODULE Spec2Model ----
(***************************************************************************)
(* Verification model of the speech-transcription service:                 *)
(*   main.py     the FastAPI application (load_model, preprocess_audio,     *)
(*               transcribe_audio, /health, /transcribe)                    *)
(*   run_app.py  the launcher (find_available_port, wait_for_server,        *)
(*               run_app)                                                   *)
(* Three specifications share the module:                                  *)
(*   Spec      the server process: startup, /health, /transcribe            *)
(*   SpecPre   preprocess_audio applied to bounded decoded waveforms        *)
(*   SpecRun   the launcher supervising the spawned server process          *)
(***************************************************************************)
EXTENDS Integers, Sequences, FiniteSets, TLC

VARIABLES
    model,       \* main.py global `model`: "None" or the handle "Wav2Vec2ForCTC"
    modelObj,    \* the object behind the handle: the device it sits on, training flag
    tokenizer,   \* main.py global `tokenizer`: "None" or "Wav2Vec2Tokenizer"
    device,      \* main.py global `device`: "None", "cpu" or "cuda"
    started,     \* the startup event has run; the server accepts requests
    loadOk,      \* what load_model returned to startup_event
    req,         \* per request: position in transcribe_file, locals, response
    fs,          \* the temporary directory: file name -> content
    health,      \* the last response of GET /health
    wave,        \* SpecPre: the file handed to preprocess_audio
    pre,         \* SpecPre: what preprocess_audio returned or raised
    lpc,         \* SpecRun: position of run_app
    child,       \* SpecRun: the spawned uvicorn process
    elapsed,     \* SpecRun: seconds since wait_for_server took start_time
    occupied,    \* SpecRun: ports some other process is bound to
    port,        \* SpecRun: the port find_available_port returned
    signals      \* SpecRun: what run_app sent to the child, in order

vars == <<model, modelObj, tokenizer, device, started, loadOk, req, fs, health,
          wave, pre, lpc, child, elapsed, occupied, port, signals>>
serverVars == <<model, modelObj, tokenizer, device, started, loadOk, req, fs, health>>
preVars == <<wave, pre>>
runVars == <<lpc, child, elapsed, occupied, port, signals>>

---------------------------------------------------------------------------
(* Bounds of the model *)

NumReqs == 2      \* POST /transcribe requests of one run
NumNames == 2     \* names NamedTemporaryFile can draw
MaxLen == 3       \* samples of a decoded waveform (SpecPre)
MaxAmp == 2       \* largest absolute sample, in quantisation steps (SpecPre)

Reqs == 1..NumReqs
Names == 1..NumNames

---------------------------------------------------------------------------
(* Values *)

NoObj == [on |-> "None", training |-> FALSE]

\* File contents.  A file is absent, holds 0 bytes, or holds audio whose
\* decoded 16 kHz mono samples are `samples`.
Absent == [kind |-> "absent", samples |-> <<>>]
EmptyBytes == [kind |-> "empty", samples |-> <<>>]
Wav(s) == [kind |-> "wav", samples |-> s]

\* What a client uploads: 0 bytes, audio with no frame, silence, speech.
Uploads == {EmptyBytes, Wav(<<>>), Wav(<<0, 0>>), Wav(<<1, -2>>)}

\* Floating-point values, in units of 1/Scale.
Scale == 100      \* fixed-point resolution of the modelled floats
Num(v) == [k |-> "num", v |-> v]
NaN == [k |-> "nan", v |-> 0]
Inf(sign) == [k |-> "inf", v |-> sign]

Abs(x) == IF x < 0 THEN -x ELSE x

\* numpy float division x / d: 0/0 is nan, x/0 is +-inf, no exception raised.
FloatDiv(x, d) ==
    IF d = 0
    THEN IF x = 0 THEN NaN ELSE Inf(IF x < 0 THEN -1 ELSE 1)
    ELSE Num((IF x < 0 THEN -1 ELSE 1) * ((Abs(x) * Scale) \div d))

\* Declared content types: the header may be missing (None).
NoneType == [present |-> FALSE, value |-> <<>>]
Str(s) == [present |-> TRUE, value |-> s]
AudioPrefix == <<"a", "u", "d", "i", "o", "/">>

ContentTypes ==
    { NoneType,
      Str(<<>>),
      Str(<<"a", "u", "d", "i", "o">>),
      Str(<<"x", "a", "u", "d", "i", "o", "/">>),
      Str(<<"t", "e", "x", "t", "/", "p">>),
      Str(<<"a", "u", "d", "i", "o", "/", "w">>) }

\* str.startswith
startswith(s, prefix) ==
    /\ Len(s) >= Len(prefix)
    /\ SubSeq(s, 1, Len(prefix)) = prefix

\* Responses
NoBody == [filename |-> "", transcription |-> <<>>, status |-> ""]
NoResp == [status |-> 0, detail |-> <<>>, body |-> NoBody]
ErrorResp(code, detail) == [status |-> code, detail |-> detail, body |-> NoBody]
OkResp(body) == [status |-> 200, detail |-> <<>>, body |-> body]

\* Exceptions: an HTTPException carries status_code and detail.
NoExc == [http |-> FALSE, status |-> 0, detail |-> <<>>]
HTTPException(code, detail) == [http |-> TRUE, status |-> code, detail |-> detail]

\* str(e): starlette's HTTPException prints "<status_code>: <detail>", any
\* other exception its message.
str(e) == IF e.http THEN <<ToString(e.status), ": ">> \o e.detail ELSE e.detail

Contains(detail, msg) == \E i \in DOMAIN detail : detail[i] = msg

---------------------------------------------------------------------------
(* load_model *)

FailPoints == 0..5   \* 0: no step raises; k: the k-th statement of the try raises

\* A load that acquires the model before the tokenizer.
load_model_model_first(failAt, cuda) ==
    LET d == IF cuda THEN "cuda" ELSE "cpu"
        reached(k) == failAt = 0 \/ failAt > k
    IN  [ device |-> IF reached(1) THEN d ELSE "None",
          model |-> IF reached(2) THEN "Wav2Vec2ForCTC" ELSE "None",
          tokenizer |-> IF reached(3) THEN "Wav2Vec2Tokenizer" ELSE "None",
          modelObj |-> IF reached(2)
                       THEN [on |-> IF reached(4) THEN d ELSE "cpu", training |-> FALSE]
                       ELSE NoObj,
          ret |-> failAt = 0 ]

\* The globals after load_model, and its return value.  The statements of the
\* try block run in order; the one numbered failAt raises and the except clause
\* returns False, leaving what the earlier statements assigned.
\*   1 device = torch.device(...)      2 tokenizer = ...from_pretrained
\*   3 model = ...from_pretrained      4 model.to(device)      5 model.eval()
\* from_pretrained returns the model on the cpu, already in evaluation mode.
load_model(failAt, cuda) ==
    LET d == IF cuda THEN "cuda" ELSE "cpu"
        reached(k) == failAt = 0 \/ failAt > k
    IN  [ device |-> IF reached(1) THEN d ELSE "None",
          tokenizer |-> IF reached(2) THEN "Wav2Vec2Tokenizer" ELSE "None",
          model |-> IF reached(3) THEN "Wav2Vec2ForCTC" ELSE "None",
          modelObj |-> IF reached(3)
                       THEN [on |-> IF reached(4) THEN d ELSE "cpu", training |-> FALSE]
                       ELSE NoObj,
          ret |-> failAt = 0 ]

---------------------------------------------------------------------------
(* preprocess_audio *)

\* librosa.load(path, sr=16000): the decoded samples, or the decoder's error.
librosa_load(file) ==
    CASE file.kind = "wav" -> [ok |-> TRUE, audio |-> file.samples, msg |-> ""]
      [] file.kind = "absent" -> [ok |-> FALSE, audio |-> <<>>, msg |-> "No such file or directory"]
      [] OTHER -> [ok |-> FALSE, audio |-> <<>>, msg |-> "Format not recognised"]

RECURSIVE np_max_abs(_)
\* np.max(np.abs(audio)) of a non-empty array
np_max_abs(audio) ==
    IF Len(audio) = 1
    THEN Abs(audio[1])
    ELSE LET m == np_max_abs(Tail(audio))
         IN  IF Abs(audio[1]) > m THEN Abs(audio[1]) ELSE m

\* audio / np.max(np.abs(audio)): every sample divided by the peak.
normalize(audio) ==
    LET peak == np_max_abs(audio)
    IN  [i \in DOMAIN audio |-> FloatDiv(audio[i], peak)]

\* preprocess_audio(path) on the file found at path.  np.max of an empty
\* array raises ValueError; every exception of the try block becomes
\* HTTPException(400, "Audio preprocessing failed: <message>").
preprocess_audio(file) ==
    LET ld == librosa_load(file)
        raise(msg) == [ok |-> FALSE, audio |-> <<>>,
                       exc |-> HTTPException(400, <<"Audio preprocessing failed: ", msg>>)]
    IN  IF ~ld.ok THEN raise(ld.msg)
        ELSE IF Len(ld.audio) = 0
        THEN raise("zero-size array to reduction operation maximum which has no identity")
        ELSE [ok |-> TRUE, audio |-> normalize(ld.audio), exc |-> NoExc]

---------------------------------------------------------------------------
(* transcribe_audio *)

\* What the forward pass and the decoder can do: raise, or produce text.
InferOutcomes ==
    { [ok |-> FALSE, msg |-> "CUDA out of memory", raw |-> <<>>],
      [ok |-> TRUE, msg |-> "", raw |-> <<" ", "H", "I", " ">>] }

lower(c) == CASE c = "H" -> "h" [] c = "I" -> "i" [] OTHER -> c

RECURSIVE lstrip(_)
lstrip(s) == IF s # <<>> /\ Head(s) = " " THEN lstrip(Tail(s)) ELSE s

RECURSIVE rstrip(_)
rstrip(s) ==
    IF s # <<>> /\ s[Len(s)] = " " THEN rstrip(SubSeq(s, 1, Len(s) - 1)) ELSE s

\* transcription.lower().strip()
lower_strip(s) == rstrip(lstrip([i \in DOMAIN s |-> lower(s[i])]))

\* An inference failure answered with an empty transcript.
transcribe_audio_partial(audio, inf, tok, dev, obj) ==
    IF tok = "None" \/ obj.on # dev \/ ~inf.ok
    THEN [ok |-> TRUE, text |-> <<>>, exc |-> NoExc]
    ELSE [ok |-> TRUE, text |-> lower_strip(inf.raw), exc |-> NoExc]

\* transcribe_audio(audio) under the globals tok, dev and the model object.
\* The inputs are moved to `device`; a model sitting on another device makes
\* the forward pass raise.  Every exception of the try block becomes
\* HTTPException(500, "Transcription failed: <message>").
transcribe_audio(audio, inf, tok, dev, obj) ==
    LET raise(msg) == [ok |-> FALSE, text |-> <<>>,
                       exc |-> HTTPException(500, <<"Transcription failed: ", msg>>)]
    IN  IF tok = "None" THEN raise("'NoneType' object is not callable")
        ELSE IF obj.on # dev
        THEN raise("Expected all tensors to be on the same device")
        ELSE IF ~inf.ok THEN raise(inf.msg)
        ELSE [ok |-> TRUE, text |-> lower_strip(inf.raw), exc |-> NoExc]

---------------------------------------------------------------------------
(* GET /health *)

health_check(m, dev) ==
    [ status |-> "healthy",
      model_status |-> IF m # "None" THEN "loaded" ELSE "not_loaded",
      device |-> IF dev # "None" THEN dev ELSE "unknown" ]

NoHealth == [status |-> "", model_status |-> "", device |-> ""]

---------------------------------------------------------------------------
(* POST /transcribe *)

FileName == "clip.wav"

IdleReq ==
    [ pc |-> "idle",          \* idle, reading (suspended in await file.read()), responded
      ct |-> NoneType,        \* file.content_type
      path |-> 0,             \* temp_file.name; 0 while no scratch file was created
      readOwn |-> FALSE,      \* preprocess_audio decoded the bytes this request wrote
      preCalls |-> 0,         \* calls of preprocess_audio
      trCalls |-> 0,          \* calls of transcribe_audio
      preRaised |-> FALSE,    \* preprocess_audio raised
      inf |-> "none",         \* the forward pass: none, ok, failed
      cause |-> "",           \* the message of the exception that ended the try block
      unlink |-> "none",      \* os.unlink in the finally clause: none, ok, failed
      resp |-> NoResp ]       \* the response sent to the client

\* A gate that refuses only when both handles are missing.
ModelGate_both(m, tok) == m = "None" /\ tok = "None"

\* line 203: the request is refused with 503
ModelGate(m, tok) == m = "None" \/ tok = "None"

\* A validation that only refuses a missing or empty content type.
ContentTypeRejected_missing_only(ct) == ~ct.present \/ ct.value = <<>>

\* line 207: not file.content_type or not file.content_type.startswith('audio/')
ContentTypeRejected(ct) ==
    \/ ~ct.present
    \/ ct.value = <<>>
    \/ ~startswith(ct.value, AudioPrefix)

\* One fixed scratch file name shared by all requests.
NamedTemporaryFile_fixed(dir) == {1}

\* tempfile.NamedTemporaryFile(delete=False, suffix=".wav"): a random name,
\* created exclusively, so a name no file of the directory has.
NamedTemporaryFile(dir) == {n \in Names : dir[n] = Absent}

\* os.unlink(path): removes the file, or raises (ok = FALSE) and leaves it.
os_unlink(dir, p, ok) == IF ok THEN [dir EXCEPT ![p] = Absent] ELSE dir

\* A cleanup that runs only when the try block returned.
FinallyClause_on_success(dir, p, ok, raised) ==
    IF raised
    THEN [fs |-> dir, unlink |-> "none"]
    ELSE [fs |-> os_unlink(dir, p, ok), unlink |-> IF ok THEN "ok" ELSE "failed"]

\* lines 237-242: the finally clause runs whether or not the try block
\* raised; an exception of os.unlink is swallowed.
FinallyClause(dir, p, ok, raised) ==
    [fs |-> os_unlink(dir, p, ok), unlink |-> IF ok THEN "ok" ELSE "failed"]

\* The forward pass fails: the environment makes it raise, or the model
\* object is not on the device the inputs are moved to.
InferenceFails(inf, dev, obj) == ~inf.ok \/ obj.on # dev

\* lines 212-231, from the resumption of await file.read() to the return:
\* the try block's outcome, with what it called on the way.
TryBlock(dir, p, inf, tok, dev, obj) ==
    LET base == [raised |-> TRUE, exc |-> NoExc, body |-> NoBody, decoded |-> Absent,
                 preCalls |-> 0, trCalls |-> 0, preRaised |-> FALSE, inf |-> "none"]
    IN    LET file == dir[p]
              a == preprocess_audio(file)
          IN  IF ~a.ok
              THEN [base EXCEPT !.exc = a.exc, !.decoded = file, !.preCalls = 1,
                                !.preRaised = TRUE]
              ELSE
                LET t == transcribe_audio(a.audio, inf, tok, dev, obj)
                    seen == [base EXCEPT !.decoded = file, !.preCalls = 1, !.trCalls = 1,
                                !.inf = IF InferenceFails(inf, dev, obj) THEN "failed" ELSE "ok"]
                IN  IF ~t.ok
                    THEN [seen EXCEPT !.exc = t.exc]
                    ELSE [seen EXCEPT !.raised = FALSE,
                                      !.body = [filename |-> FileName,
                                                transcription |-> t.text,
                                                status |-> "success"]]

\* lines 233-235: except Exception as e: raise HTTPException(500, detail=str(e))
ExceptClause(e) == HTTPException(500, str(e))

\* The response the framework sends for the handler's outcome.
Response(t) ==
    IF t.raised
    THEN ErrorResp(ExceptClause(t.exc).status, ExceptClause(t.exc).detail)
    ELSE OkResp(t.body)

\* transcribe_file up to its first suspension (lines 203-214): the two checks,
\* then the creation of the scratch file.
transcribe_file_enter(r) ==
    /\ started
    /\ req[r].pc = "idle"
    /\ \E ct \in ContentTypes :
         IF ModelGate(model, tokenizer)
         THEN /\ req' = [req EXCEPT ![r] = [@ EXCEPT !.pc = "responded", !.ct = ct,
                           !.resp = ErrorResp(503, <<"Model not loaded. Please check health endpoint.">>)]]
              /\ fs' = fs
         ELSE IF ContentTypeRejected(ct)
         THEN /\ req' = [req EXCEPT ![r] = [@ EXCEPT !.pc = "responded", !.ct = ct,
                           !.resp = ErrorResp(400, <<"Please upload an audio file">>)]]
              /\ fs' = fs
         ELSE \E n \in NamedTemporaryFile(fs) :
              /\ req' = [req EXCEPT ![r] = [@ EXCEPT !.pc = "reading", !.ct = ct, !.path = n]]
              /\ fs' = [fs EXCEPT ![n] = EmptyBytes]
    /\ UNCHANGED <<model, modelObj, tokenizer, device, started, loadOk, health>>
    /\ UNCHANGED <<preVars, runVars>>

\* transcribe_file from the resumption of await file.read() to the response
\* (lines 214-242), for the request record rq: the upload is written to the
\* scratch file, the try block runs, then the finally clause.  The upload was
\* received by the framework before the handler ran; reading it and writing
\* it to the scratch file succeed.
transcribe_file_body(rq, dir, upload, inf, unlinkOk, tok, dev, obj) ==
    LET p == rq.path
        written == [dir EXCEPT ![p] = upload]
        t == TryBlock(written, p, inf, tok, dev, obj)
        f == FinallyClause(written, p, unlinkOk, t.raised)
    IN  [ fs |-> f.fs,
          req |-> [ pc |-> "responded", ct |-> rq.ct, path |-> p,
                    readOwn |-> (t.decoded = upload), preCalls |-> t.preCalls,
                    trCalls |-> t.trCalls, preRaised |-> t.preRaised, inf |-> t.inf,
                    cause |-> IF t.raised THEN t.exc.detail[Len(t.exc.detail)] ELSE "",
                    unlink |-> f.unlink, resp |-> Response(t) ] ]

\* Nothing between the resumption and the response suspends (preprocess_audio
\* and transcribe_audio are plain calls), so the rest of the handler is one step.
transcribe_file_resume(r) ==
    /\ req[r].pc = "reading"
    /\ \E upload \in Uploads, inf \in InferOutcomes, unlinkOk \in BOOLEAN :
         LET o == transcribe_file_body(req[r], fs, upload, inf, unlinkOk,
                                       tokenizer, device, modelObj)
         IN  /\ req' = [req EXCEPT ![r] = o.req]
             /\ fs' = o.fs
    /\ UNCHANGED <<model, modelObj, tokenizer, device, started, loadOk, health>>
    /\ UNCHANGED <<preVars, runVars>>

\* startup_event: load_model runs once, before any request is served; its
\* failure is only logged.
startup_event ==
    /\ ~started
    /\ \E failAt \in FailPoints, cuda \in BOOLEAN :
         LET g == load_model(failAt, cuda)
         IN  /\ model' = g.model
             /\ modelObj' = g.modelObj
             /\ tokenizer' = g.tokenizer
             /\ device' = g.device
             /\ loadOk' = g.ret
    /\ started' = TRUE
    /\ UNCHANGED <<req, fs, health>>
    /\ UNCHANGED <<preVars, runVars>>

\* GET /health
health_request ==
    /\ started
    /\ health' = health_check(model, device)
    /\ UNCHANGED <<model, modelObj, tokenizer, device, started, loadOk, req, fs>>
    /\ UNCHANGED <<preVars, runVars>>

NoPre == [ok |-> FALSE, audio |-> <<>>, exc |-> NoExc]

PreIdle == wave = Absent /\ pre = NoPre
RunIdle ==
    /\ lpc = "off" /\ child = "none" /\ elapsed = 0
    /\ occupied = {} /\ port = 0 /\ signals = <<>>
ServerIdle ==
    /\ model = "None" /\ modelObj = NoObj /\ tokenizer = "None" /\ device = "None"
    /\ started = FALSE /\ loadOk = FALSE
    /\ req = [r \in Reqs |-> IdleReq]
    /\ fs = [n \in Names |-> Absent]
    /\ health = NoHealth

Init == ServerIdle /\ PreIdle /\ RunIdle

Next ==
    \/ startup_event
    \/ health_request
    \/ \E r \in Reqs : transcribe_file_enter(r)
    \/ \E r \in Reqs : transcribe_file_resume(r)

Spec == Init /\ [][Next]_vars

---------------------------------------------------------------------------
(* SpecPre: preprocess_audio on every bounded decoded waveform *)

Samples == (0 - MaxAmp)..MaxAmp
Waveforms == UNION {[1..n -> Samples] : n \in 0..MaxLen}

InitPre ==
    /\ ServerIdle /\ RunIdle
    /\ wave \in {EmptyBytes} \cup {Wav(s) : s \in Waveforms}
    /\ pre = NoPre

\* One call preprocess_audio(path) on the file `wave`.
preprocess_call ==
    /\ pre = NoPre
    /\ pre' = preprocess_audio(wave)
    /\ UNCHANGED wave
    /\ UNCHANGED <<serverVars, runVars>>

NextPre == preprocess_call

SpecPre == InitPre /\ [][NextPre]_vars

---------------------------------------------------------------------------
(* SpecRun: run_app, the launcher, and the server process it spawns *)

StartPort == 8000        \* find_available_port(8000)
MaxAttempts == 10        \* max_attempts
WaitTimeout == 30        \* wait_for_server(url, timeout=30)
RequestTimeout == 5      \* requests.get(..., timeout=5)
SleepStep == 1           \* time.sleep(1)

Ports == StartPort..(StartPort + MaxAttempts - 1)

\* check_port_available(port): the bind succeeds
check_port_available(p) == p \notin occupied

\* find_available_port: the first port of the range that is available; 0
\* stands for the exception raised when none is.
find_available_port ==
    IF \E p \in Ports : check_port_available(p)
    THEN CHOOSE p \in Ports :
            /\ check_port_available(p)
            /\ \A q \in Ports : check_port_available(q) => p <= q
    ELSE 0

InitRun ==
    /\ ServerIdle /\ PreIdle
    /\ lpc = "start" /\ child = "none" /\ elapsed = 0
    /\ occupied \in SUBSET Ports
    /\ port = 0 /\ signals = <<>>

\* run_app up to the call of wait_for_server (lines 92-120): without main.py
\* it returns; when no port is free the exception is printed and it returns;
\* otherwise the server is spawned with its output piped.
run_app_start ==
    /\ lpc = "start"
    /\ \E mainExists \in BOOLEAN :
         IF ~mainExists \/ find_available_port = 0
         THEN /\ lpc' = "returned"
              /\ UNCHANGED <<child, port>>
         ELSE /\ port' = find_available_port
              /\ child' = "starting"
              /\ lpc' = "waiting"
    /\ elapsed' = 0
    /\ UNCHANGED <<occupied, signals>>
    /\ UNCHANGED <<serverVars, preVars>>

\* The answer to GET /health: 200 from a serving child (it answers 200 whether
\* or not the model loaded), a RequestException otherwise; a serving child
\* busy elsewhere may let the request time out.
HealthAnswers(c) == IF c = "serving" THEN {200, 0} ELSE {0}

\* One iteration of the loop of wait_for_server (lines 79-86): 200 returns
\* True; otherwise the attempt took up to RequestTimeout seconds and the loop
\* sleeps a second.
wait_for_server_iteration ==
    /\ lpc = "waiting"
    /\ elapsed < WaitTimeout
    /\ \E answer \in HealthAnswers(child), took \in {0, RequestTimeout} :
         IF answer = 200
         THEN /\ lpc' = "ready"
              /\ elapsed' = elapsed
         ELSE /\ lpc' = lpc
              /\ elapsed' = elapsed + took + SleepStep
    /\ UNCHANGED <<child, occupied, port, signals>>
    /\ UNCHANGED <<serverVars, preVars>>

\* wait_for_server returns False (line 88); run_app prints the failure and
\* calls process.communicate() (lines 149-150).
wait_for_server_timeout ==
    /\ lpc = "waiting"
    /\ elapsed >= WaitTimeout
    /\ lpc' = "communicate"
    /\ UNCHANGED <<child, elapsed, occupied, port, signals>>
    /\ UNCHANGED <<serverVars, preVars>>

\* process.communicate() returns once the child has exited and its pipes are
\* closed; then process.terminate() finds the child reaped and sends nothing
\* (lines 150-153).
communicate_returns ==
    /\ lpc = "communicate"
    /\ child = "exited"
    /\ lpc' = "returned"
    /\ UNCHANGED <<child, elapsed, occupied, port, signals>>
    /\ UNCHANGED <<serverVars, preVars>>

\* Lines 121-133: the browser is opened (a failure is printed) and the
\* launcher starts polling the child.
open_browser ==
    /\ lpc = "ready"
    /\ lpc' = "supervising"
    /\ UNCHANGED <<child, elapsed, occupied, port, signals>>
    /\ UNCHANGED <<serverVars, preVars>>

\* Lines 137-138: process.poll() is no longer None, the loop ends.
supervise_child_gone ==
    /\ lpc = "supervising"
    /\ child = "exited"
    /\ lpc' = "returned"
    /\ UNCHANGED <<child, elapsed, occupied, port, signals>>
    /\ UNCHANGED <<serverVars, preVars>>

\* Lines 139-147: Ctrl+C while polling: terminate, wait five seconds, kill.
keyboard_interrupt ==
    /\ lpc = "supervising"
    /\ \E exitsInTime \in BOOLEAN :
         signals' = IF child = "exited" THEN signals
                    ELSE IF exitsInTime THEN Append(signals, "SIGTERM")
                    ELSE signals \o <<"SIGTERM", "SIGKILL">>
    /\ child' = "exited"
    /\ lpc' = "returned"
    /\ UNCHANGED <<elapsed, occupied, port>>
    /\ UNCHANGED <<serverVars, preVars>>

\* Ctrl+C anywhere else: KeyboardInterrupt is no Exception, so the except
\* clause of line 155 does not catch it and run_app is left by the exception.
keyboard_interrupt_uncaught ==
    /\ lpc \in {"waiting", "communicate", "ready"}
    /\ lpc' = "aborted"
    /\ UNCHANGED <<child, elapsed, occupied, port, signals>>
    /\ UNCHANGED <<serverVars, preVars>>

\* The child: the application finishes its startup and serves ...
child_serves ==
    /\ child = "starting"
    /\ child' = "serving"
    /\ UNCHANGED <<lpc, elapsed, occupied, port, signals>>
    /\ UNCHANGED <<serverVars, preVars>>

\* ... or the process ends by itself (an import error, the port taken in the
\* meantime, a crash).
child_exits ==
    /\ child \in {"starting", "serving"}
    /\ child' = "exited"
    /\ UNCHANGED <<lpc, elapsed, occupied, port, signals>>
    /\ UNCHANGED <<serverVars, preVars>>

\* The steps run_app takes by itself
LauncherStep ==
    \/ run_app_start
    \/ wait_for_server_iteration
    \/ wait_for_server_timeout
    \/ communicate_returns
    \/ open_browser
    \/ supervise_child_gone

NextRun ==
    \/ LauncherStep
    \/ keyboard_interrupt
    \/ keyboard_interrupt_uncaught
    \/ child_serves
    \/ child_exits

SpecRun == InitRun /\ [][NextRun]_vars

\* The launcher is a running program: a step it can take, it takes.  Nothing
\* makes the child exit or the user press Ctrl+C.
FairSpecRun == SpecRun /\ WF_vars(LauncherStep)

---------------------------------------------------------------------------
(* Properties of the server (Spec) *)

Responded(r) == req[r].pc = "responded"
InFlight(r) == req[r].pc = "reading"

\* The declared content type does not announce audio.
NotAudio(ct) == ~ct.present \/ ~startswith(ct.value, AudioPrefix)

\* C1: a request that passed both checks and whose decoding/preprocessing
\* failed is answered 400 with the underlying failure message, never 500.
C1_DecodeFailureIs400 ==
    \A r \in Reqs :
        (Responded(r) /\ req[r].preRaised)
            => /\ req[r].resp.status = 400
               /\ Contains(req[r].resp.detail, req[r].cause)

\* C2: when load_model returned failure, the model and the tokenizer are
\* unset and every request is refused with 503; none gets past the
\* model-loaded check.
C2_FailedLoadLeavesStateUnset ==
    (started /\ ~loadOk)
        => /\ model = "None" /\ tokenizer = "None"
           /\ \A r \in Reqs : ~InFlight(r)
           /\ \A r \in Reqs : Responded(r) => req[r].resp.status = 503

\* C3 as stated: once no request is in flight, no scratch file exists.
C3_NoScratchFileLeft ==
    (\A r \in Reqs : ~InFlight(r)) => \A n \in Names : fs[n] = Absent

\* C3 amended: every request that created a scratch file has run os.unlink on
\* it by the time it responds, on the success path and on both failure paths;
\* a scratch file that exists belongs to a request still in flight or is one
\* whose os.unlink raised (the error is swallowed).
C3_CleanupOnEveryPath ==
    /\ \A r \in Reqs :
          (Responded(r) /\ req[r].path # 0) => req[r].unlink \in {"ok", "failed"}
    /\ \A n \in Names :
          fs[n] # Absent
            => \E r \in Reqs :
                  /\ req[r].path = n
                  /\ InFlight(r) \/ (Responded(r) /\ req[r].unlink = "failed")

\* A batch with a success and a preprocessing failure has completed, both
\* cleanups succeeded, and the temporary directory is empty.
C3_Witness ==
    /\ \A r \in Reqs : ~InFlight(r)
    /\ \A n \in Names : fs[n] = Absent
    /\ \E r1, r2 \in Reqs :
          /\ Responded(r1) /\ req[r1].resp.status = 200 /\ req[r1].unlink = "ok"
          /\ Responded(r2) /\ req[r2].preRaised /\ req[r2].unlink = "ok"

\* C4: requests in flight hold scratch files with pairwise different paths,
\* the file of a request in flight is still there and untouched by the
\* others, and what a request decodes is what it wrote itself.
C4_OwnScratchFile ==
    /\ \A r1, r2 \in Reqs :
          (r1 # r2 /\ InFlight(r1) /\ InFlight(r2)) => req[r1].path # req[r2].path
    /\ \A r \in Reqs : InFlight(r) => fs[req[r].path] = EmptyBytes
    /\ \A r \in Reqs : (Responded(r) /\ req[r].preCalls > 0) => req[r].readOwn

\* One request is in flight while another, which held a scratch file, has
\* completed and removed it.
C4_Witness ==
    \E r1, r2 \in Reqs :
        /\ InFlight(r1)
        /\ Responded(r2) /\ req[r2].unlink = "ok" /\ req[r2].readOwn

\* C6: while the model is unloaded a request gets 503 whatever its content
\* type, creates no scratch file and calls neither preprocess_audio nor
\* transcribe_audio.
C6_UnloadedIs503 ==
    model = "None"
        => \A r \in Reqs :
              /\ ~InFlight(r)
              /\ Responded(r)
                    => /\ req[r].resp.status = 503
                       /\ req[r].path = 0
                       /\ req[r].preCalls = 0 /\ req[r].trCalls = 0

\* An audio upload was refused with 503 by a server whose tokenizer loaded
\* and whose model did not.
C6_Witness ==
    /\ model = "None" /\ tokenizer # "None"
    /\ \E r \in Reqs :
          Responded(r) /\ ~NotAudio(req[r].ct) /\ req[r].resp.status = 503

\* C7: with the model loaded, a request whose content type is missing or
\* does not start with "audio/" gets 400, no scratch file is created for it
\* and preprocess_audio is not called.
C7_NonAudioIs400 ==
    (model # "None" /\ tokenizer # "None")
        => \A r \in Reqs :
              (req[r].pc # "idle" /\ NotAudio(req[r].ct))
                  => /\ Responded(r)
                     /\ req[r].resp.status = 400
                     /\ req[r].path = 0
                     /\ req[r].preCalls = 0
                     /\ \A n \in Names :
                           fs[n] # Absent => \E q \in Reqs : q # r /\ req[q].path = n

\* A request declaring "xaudio/" was refused with 400 by a loaded server.
C7_Witness ==
    /\ model # "None" /\ tokenizer # "None"
    /\ \E r \in Reqs :
          /\ Responded(r) /\ req[r].resp.status = 400
          /\ req[r].ct = Str(<<"x", "a", "u", "d", "i", "o", "/">>)

\* C8: a 200 response carries {filename, transcription, status: "success"}
\* and is sent only when preprocessing returned and the forward pass and the
\* decoding completed; when inference fails the response is 500 with the
\* underlying message and no transcript, and transcribe_audio ran once.
C8_AllOrNothing ==
    \A r \in Reqs :
        Responded(r)
          => /\ req[r].resp.status = 200
                  => /\ req[r].preCalls = 1 /\ ~req[r].preRaised
                     /\ req[r].trCalls = 1 /\ req[r].inf = "ok"
                     /\ req[r].resp.body.filename = FileName
                     /\ req[r].resp.body.status = "success"
             /\ req[r].inf = "failed"
                  => /\ req[r].resp.status = 500
                     /\ req[r].resp.body = NoBody
                     /\ Contains(req[r].resp.detail, req[r].cause)
                     /\ req[r].trCalls = 1
             /\ req[r].resp.status # 200 => req[r].resp.body = NoBody
             /\ req[r].trCalls <= 1 /\ req[r].preCalls <= 1

\* One request failed in the forward pass and got 500, another got its
\* transcript.
C8_Witness ==
    \E r1, r2 \in Reqs :
        /\ Responded(r1) /\ req[r1].inf = "failed" /\ req[r1].resp.status = 500
        /\ Responded(r2) /\ req[r2].resp.status = 200
        /\ req[r2].resp.body.transcription = <<"h", "i">>

HealthSaysLoaded(h) == h.model_status = "loaded"

\* C9: after load_model has run, /health reports "loaded" exactly when
\* /transcribe passes its model-loaded check.
C9_HealthAgreesWithGate ==
    started =>
        /\ HealthSaysLoaded(health_check(model, device))
              = (model # "None" /\ tokenizer # "None")
        /\ (health # NoHealth) =>
              \A r \in Reqs :
                  Responded(r) => (HealthSaysLoaded(health) = (req[r].resp.status # 503))

\* The load failed after the tokenizer and before the model; /health said
\* "not_loaded" and a request was refused with 503.
C9_Witness ==
    /\ started /\ ~loadOk /\ tokenizer # "None"
    /\ health # NoHealth /\ health.model_status = "not_loaded"
    /\ \E r \in Reqs : Responded(r) /\ req[r].resp.status = 503

---------------------------------------------------------------------------
(* Properties of preprocess_audio (SpecPre) *)

Silent(s) == \A i \in DOMAIN s : s[i] = 0
AllFinite(a) == \A i \in DOMAIN a : a[i].k = "num"
PeakIsOne(a) ==
    /\ \A i \in DOMAIN a : Abs(a[i].v) <= Scale
    /\ \E i \in DOMAIN a : Abs(a[i].v) = Scale

\* C5: the waveform preprocess_audio returns for an all-zero input holds no
\* NaN/Inf, and the one it returns for a non-silent input has peak 1.
C5_SilenceGuarded ==
    pre.ok
        => IF Silent(wave.samples)
           THEN AllFinite(pre.audio)
           ELSE AllFinite(pre.audio) /\ PeakIsOne(pre.audio)

\* The half of C5 the code keeps: a non-silent input comes back with peak 1.
NonSilentPeakIsOne ==
    (pre.ok /\ ~Silent(wave.samples)) => (AllFinite(pre.audio) /\ PeakIsOne(pre.audio))

\* What the code does with silence: every sample of the result is NaN.
SilenceBecomesNaN ==
    (pre.ok /\ Silent(wave.samples)) => \A i \in DOMAIN pre.audio : pre.audio[i] = NaN

---------------------------------------------------------------------------
(* Properties of the launcher (FairSpecRun) *)

\* C10: when wait_for_server timed out, run_app eventually returns with the
\* child terminated, also when the child is still running at that moment
\* (unless Ctrl+C takes the launcher down first).
C10_FailurePathReturns ==
    (lpc = "communicate")
        ~> ((lpc = "returned" /\ child = "exited") \/ lpc = "aborted")

\* The same as a state property: in the failure path run_app is never left
\* with a live child and no step of its own to take.
FailurePathNotBlocked ==
    (lpc = "communicate" /\ child # "exited") => ENABLED LauncherStep

====
